---- MODULE Spec2Model ----
(***************************************************************************)
(* Model of SonnendachAPIInvestigator (investigate_sonnendach_api.py).     *)
(*                                                                         *)
(* Every probe method is an operator from its arguments and the outcome of *)
(* each session.get it performs to a record                                *)
(*   [ret, out, trace, raised]                                             *)
(* ret: the Python return value, out: the lines printed, trace: the calls  *)
(* and HTTP requests made, raised: whether an exception left the method.   *)
(* Two state machines use them: Spec is one run of run_full_investigation, *)
(* ProbeSpec is a caller invoking the public probe methods directly.       *)
(* Coordinates are fixed-point numbers in tenths (605075.4 is 6050754).    *)
(***************************************************************************)
EXTENDS Integers, Sequences, FiniteSets, TLC

VARIABLES
  pc,      \* where run_full_investigation (Spec) or the caller (ProbeSpec) stands
  i,       \* index of the running for loop
  layers,  \* run_full_investigation's local `layers`
  ret,     \* what the latest probe call returned
  out,     \* the lines the latest step printed
  trace,   \* the calls and HTTP requests made so far, in order
  given    \* the arguments and HTTP outcomes the latest probe call was given

vars == <<pc, i, layers, ret, out, trace, given>>

----------------------------------------------------------------------------
(* Bounds of the model *)

\* longest layer list a catalog response carries
MaxLayers == 4

----------------------------------------------------------------------------
(* Python and JSON values *)

JNull == [t |-> "null"]
JStr(s) == [t |-> "str", s |-> s]
JNum(n) == [t |-> "num", n |-> n]
JArr(a) == [t |-> "arr", a |-> a]
JObj(f) == [t |-> "obj", f |-> f]

PyNone == [t |-> "None"]
PyBool(b) == [t |-> "bool", b |-> b]
PyList(a) == [t |-> "list", a |-> a]

\* dict.get(key, default) on a JSON object
DictGet(obj, key, default) ==
  IF key \in DOMAIN obj.f THEN obj.f[key] ELSE default

\* `if results is not None:`
TruthyNotNone(v) == v.t # "null"

\* Python truthiness of a JSON value (`if results:`)
Truthy(v) ==
  CASE v.t = "null" -> FALSE
    [] v.t = "str" -> v.s # ""
    [] v.t = "num" -> v.n # 0
    [] v.t = "arr" -> v.a # <<>>
    [] v.t = "obj" -> DOMAIN v.f # {}

\* the characters of the strings the model's inputs use
Chars(s) ==
  CASE s = "solar" -> <<"s", "o", "l", "a", "r">>
    [] s = "sonnendach" -> <<"s", "o", "n", "n", "e", "n", "d", "a", "c", "h">>
    [] s = "bfe" -> <<"b", "f", "e">>
    [] s = "energie" -> <<"e", "n", "e", "r", "g", "i", "e">>
    [] s = "ch.bfe.solarkataster" -> <<"c", "h", ".", "b", "f", "e", ".", "s", "o", "l", "a", "r", "k", "a", "t", "a", "s", "t", "e", "r">>
    [] s = "CH.BFE.Sonnendach" -> <<"C", "H", ".", "B", "F", "E", ".", "S", "o", "n", "n", "e", "n", "d", "a", "c", "h">>
    [] s = "ch.swisstopo.pixelkarte" -> <<"c", "h", ".", "s", "w", "i", "s", "s", "t", "o", "p", "o", ".", "p", "i", "x", "e", "l", "k", "a", "r", "t", "e">>
    [] s = "Solar-Potential" -> <<"S", "o", "l", "a", "r", "-", "P", "o", "t", "e", "n", "t", "i", "a", "l">>
    [] s = "Solar" -> <<"S", "o", "l", "a", "r">>
    [] s = "Landeskarte" -> <<"L", "a", "n", "d", "e", "s", "k", "a", "r", "t", "e">>
    [] s = "vector" -> <<"v", "e", "c", "t", "o", "r">>
    [] s = "" -> <<>>

UpperLetters == <<"A", "B", "C", "D", "E", "F", "G", "H", "I", "J", "K", "L", "M",
                  "N", "O", "P", "Q", "R", "S", "T", "U", "V", "W", "X", "Y", "Z">>

LowerLetters == <<"a", "b", "c", "d", "e", "f", "g", "h", "i", "j", "k", "l", "m",
                  "n", "o", "p", "q", "r", "s", "t", "u", "v", "w", "x", "y", "z">>

\* str.lower(), on a sequence of characters
Lower(cs) ==
  [k \in 1..Len(cs) |->
     IF \E u \in 1..Len(UpperLetters) : UpperLetters[u] = cs[k]
     THEN LowerLetters[CHOOSE u \in 1..Len(UpperLetters) : UpperLetters[u] = cs[k]]
     ELSE cs[k]]

\* `needle in hay` on sequences of characters
Contains(hay, needle) ==
  \E k \in 0..(Len(hay) - Len(needle)) :
     SubSeq(hay, k + 1, k + Len(needle)) = needle

\* the keyword list of lines 38 and 159
KEYWORDS == <<"solar", "sonnendach", "bfe", "energie">>

\* the strings the model's inputs use as identifiers and names
KnownStrings ==
  { "", "ch.bfe.solarkataster", "CH.BFE.Sonnendach", "ch.swisstopo.pixelkarte",
    "Solar-Potential", "Solar", "Landeskarte" }

\* s.lower() of each of them
Lowered == [s \in KnownStrings |-> Lower(Chars(s))]

\* any(keyword in s.lower() for keyword in [...])
AnyKeywordIn(s) ==
  \E k \in 1..Len(KEYWORDS) : Contains(Lowered[s], Chars(KEYWORDS[k]))

----------------------------------------------------------------------------
(* HTTP *)

\* one call of session.get, as the trace records it
HttpGet(probe, url, params) ==
  [ev |-> "get", probe |-> probe, url |-> url, params |-> params]

\* one call of a method, as the trace records it
Call(op, arg) == [ev |-> "call", op |-> op, arg |-> arg]

\* session.get raised (connection refused, timeout)
TransportError == [kind |-> "exception"]

\* session.get returned; body.parse says whether response.json() raises
Response(status, text, body) ==
  [kind |-> "response", status |-> status, text |-> text, body |-> body]

NotJson == [parse |-> "error"]
Json(v) == [parse |-> "ok", json |-> v]

Returned(resp) == resp.kind = "response"
Ok200(resp) == Returned(resp) /\ resp.status = 200
Parsed(resp) == Ok200(resp) /\ resp.body.parse = "ok"
ParsedObj(resp) == Parsed(resp) /\ resp.body.json.t = "obj"

\* the non-200 responses and the transport failure, common to every request
Failures ==
  { TransportError,
    Response(404, "", NotJson),
    Response(500, "Internal Server Error", NotJson) }

----------------------------------------------------------------------------
(* Program constants *)

GEOADMIN_URL == "https://api3.geo.admin.ch/rest/services/api/MapServer"

IDENTIFY_URL == "https://api3.geo.admin.ch/rest/services/api/MapServer/identify"

WMS_URL == "https://wms.geo.admin.ch/"

\* test_coords = [605075.4, 197225.3], in tenths
TEST_COORDS == <<6050754, 1972253>>

\* half-width of test_layer_identify's mapExtent
IDENTIFY_HALF_WIDTH == 500

\* half-width of test_layer_identify_simple's mapExtent
SIMPLE_HALF_WIDTH == 100

\* layers[:3]
DESCRIBE_LIMIT == 3

\* an integer literal of the source as a fixed-point number in tenths
Tenths(n) == n * 10

layer_variations ==
  << "ch.bfe.sonnendach",
     "ch.bfe.sonnendach-potentiale",
     "ch.bfe.sonnendach-eigenverbrauch",
     "ch.bfe.solar-potentiale",
     "ch.bfe.solar",
     "ch.sfoe.sonnendach",
     "ch.uvek.sonnendach",
     "ch.admin.sonnendach",
     "ch.energie.sonnendach",
     "ch.bfe.solarkataster" >>

endpoints ==
  << "https://api3.geo.admin.ch/rest/services/ech/MapServer",
     "https://api3.geo.admin.ch/rest/services/all/MapServer",
     "https://www.uvek-gis.admin.ch/BFE/sonnendach",
     "https://map.geo.admin.ch/services/solarkataster" >>

----------------------------------------------------------------------------
(* The probes *)

\* what a method hands back: its return value, its output, its calls and requests
Result(r, o, tr) == [ret |-> r, out |-> o, trace |-> tr, raised |-> FALSE]

\* an exception leaves the method: there is no return value
Raises(o, tr) == [ret |-> PyNone, out |-> o, trace |-> tr, raised |-> TRUE]

\* an exception raised inside the try block and not handled
Uncaught(r, o, tr) == Raises(o, tr)

\* `except Exception as e:` of a probe: the exception raised inside the try block
\* is printed (the last line of o) and the method goes on to return r
Caught(r, o, tr) == Result(r, o, tr)

NoArg == [layer |-> "", coords |-> <<>>]

\* f"{a},{b},..." : the fields joined by commas
Csv(fields) == [sep |-> ",", fields |-> fields]

\* the condition of line 38 on one catalog entry
LayerMatchesIdOrName(layer_id, layer_name) ==
  \/ AnyKeywordIn(layer_id.s)
  \/ (layer_name.t = "str" /\ AnyKeywordIn(layer_name.s))

LayerMatches(layer_id, layer_name) == AnyKeywordIn(layer_id.s)

\* the loop of lines 34-43 from entry k on; exc when an entry raises
RECURSIVE SolarLayersFrom(_, _, _)
SolarLayersFrom(ls, k, acc) ==
  IF k > Len(ls) THEN [exc |-> FALSE, val |-> acc]
  ELSE LET layer == ls[k] IN
       IF layer.t # "obj" THEN [exc |-> TRUE, val |-> <<>>]
       ELSE LET layer_id == DictGet(layer, "layerId", JStr(""))
                layer_name == DictGet(layer, "name", JStr(""))
            IN IF layer_id.t # "str" THEN [exc |-> TRUE, val |-> <<>>]
               ELSE IF LayerMatches(layer_id, layer_name)
                    THEN SolarLayersFrom(ls, k + 1,
                           Append(acc, [id |-> layer_id,
                                        name |-> layer_name,
                                        type |-> DictGet(layer, "type", JStr("unknown"))]))
                    ELSE SolarLayersFrom(ls, k + 1, acc)

\* data.get('layers', []) as the list the loop walks; exc when len() or the
\* iteration raises before any entry is looked at
LayerList(body) ==
  LET v == DictGet(body, "layers", JArr(<<>>)) IN
  CASE v.t = "arr" -> [exc |-> FALSE, val |-> v.a]
    [] v.t = "str" -> [exc |-> v.s # "", val |-> <<>>]
    [] v.t = "obj" -> [exc |-> DOMAIN v.f # {}, val |-> <<>>]
    [] OTHER -> [exc |-> TRUE, val |-> <<>>]

investigate_geoadmin_layers(resp) ==
  LET tr == << Call("investigate_geoadmin_layers", NoArg),
               HttpGet("investigate_geoadmin_layers", <<GEOADMIN_URL>>, <<>>) >>
      hello == <<"Investigating GeoAdmin API layers...">>
      failed == Caught(PyList(<<>>), hello \o <<"Error investigating layers">>, tr)
  IN
  IF ~Returned(resp) THEN failed
  ELSE IF resp.status # 200
       THEN Result(PyList(<<>>), hello \o <<"GeoAdmin API failed">>, tr)
  ELSE IF ~ParsedObj(resp) THEN failed
  ELSE LET ls == LayerList(resp.body.json) IN
       IF ls.exc THEN failed
       ELSE LET solar == SolarLayersFrom(ls.val, 1, <<>>) IN
            IF solar.exc
            THEN Caught(PyList(<<>>),
                        hello \o <<"GeoAdmin API accessible", "Error investigating layers">>, tr)
            ELSE Result(PyList(solar.val),
                        hello \o <<"GeoAdmin API accessible",
                                   "Found potential solar-related layers">>
                              \o [k \in 1..Len(solar.val) |-> "layer"],
                        tr)

\* the extent's last field built from the easting
IdentifyParamsSkewed(layer_id, coords, half) ==
  [ geometry |-> Csv(<<coords[1], coords[2]>>),
    geometryType |-> "esriGeometryPoint",
    layers |-> <<"all:", layer_id>>,
    mapExtent |-> Csv(<< coords[1] - Tenths(half), coords[2] - Tenths(half),
                         coords[1] + Tenths(half), coords[1] + Tenths(half) >>),
    sr |-> "2056",
    lang |-> "en" ]

\* the params of line 90-101 / 237-247 that depend on the arguments
IdentifyParams(layer_id, coords, half) ==
  [ geometry |-> Csv(<<coords[1], coords[2]>>),
    geometryType |-> "esriGeometryPoint",
    layers |-> <<"all:", layer_id>>,
    mapExtent |-> Csv(<< coords[1] - Tenths(half), coords[2] - Tenths(half),
                         coords[1] + Tenths(half), coords[2] + Tenths(half) >>),
    sr |-> "2056",
    lang |-> "en" ]

\* results[0] of lines 112 and 256; exc when indexing raises
FirstOf(results) ==
  CASE results.t = "arr" ->
         IF results.a = <<>> THEN [exc |-> TRUE, val |-> JNull]
         ELSE [exc |-> FALSE, val |-> results.a[1]]
    [] results.t = "str" -> [exc |-> FALSE, val |-> JStr("c")]
    [] OTHER -> [exc |-> TRUE, val |-> JNull]

\* whether len(v) raises
HasLen(v) == v.t \in {"arr", "str", "obj"}

Min(a, b) == IF a < b THEN a ELSE b

test_layer_identify(layer_id, coords, resp) ==
  LET tr == << Call("test_layer_identify", [layer |-> layer_id, coords |-> coords]),
               HttpGet("test_layer_identify", <<IDENTIFY_URL>>,
                       IdentifyParams(layer_id, coords, IDENTIFY_HALF_WIDTH)) >>
      hello == <<"Testing identify at coordinates">>
      failed == Caught(PyNone, hello \o <<"Identify error">>, tr)
  IN
  IF ~Returned(resp) THEN failed
  ELSE IF resp.status # 200
       THEN Result(PyNone,
                   hello \o <<"Identify failed">>
                         \o (IF resp.text # "" THEN <<"Response">> ELSE <<>>), tr)
  ELSE IF ~ParsedObj(resp) THEN failed
  ELSE LET results == DictGet(resp.body.json, "results", JArr(<<>>)) IN
       IF ~HasLen(results) THEN failed
       ELSE LET ok == hello \o <<"Identify successful">> IN
       IF ~Truthy(results)
       THEN Result(PyNone, ok \o <<"No data found at test coordinates">>, tr)
       ELSE LET first == FirstOf(results) IN
            IF first.exc \/ first.val.t # "obj"
            THEN Caught(PyNone, ok \o <<"Identify error">>, tr)
            ELSE LET attrs == DictGet(first.val, "attributes", JObj(<<>>)) IN
                 IF attrs.t # "obj"
                 THEN Caught(PyNone,
                             ok \o <<"Sample result attributes", "Identify error">>, tr)
                 ELSE LET n == Cardinality(DOMAIN attrs.f) IN
                      Result(PyNone,
                             ok \o <<"Sample result attributes">>
                                \o [k \in 1..Min(n, 5) |-> "attribute"]
                                \o (IF n > 5 THEN <<"more attributes">> ELSE <<>>),
                             tr)

\* `return True` after the if/else instead of inside `if results:`
simple_no_data_returns_true(tr) ==
  Result(PyBool(TRUE), <<"Layer exists but no data at coordinates">>, tr)

\* lines 260-261 and 268: no results, the method falls through to `return False`
simple_no_data(tr) ==
  Result(PyBool(FALSE), <<"Layer exists but no data at coordinates">>, tr)

test_layer_identify_simple(layer_id, coords, resp) ==
  LET tr == << Call("test_layer_identify_simple", [layer |-> layer_id, coords |-> coords]),
               HttpGet("test_layer_identify_simple", <<IDENTIFY_URL>>,
                       IdentifyParams(layer_id, coords, SIMPLE_HALF_WIDTH)) >>
      failed == Caught(PyBool(FALSE), <<"Error">>, tr)
  IN
  IF ~Returned(resp) THEN failed
  ELSE IF resp.status # 200 THEN Result(PyBool(FALSE), <<"HTTP status">>, tr)
  ELSE IF ~ParsedObj(resp) THEN failed
  ELSE LET results == DictGet(resp.body.json, "results", JArr(<<>>)) IN
       IF ~Truthy(results)
       THEN simple_no_data(tr)
       ELSE IF ~HasLen(results) THEN failed
       ELSE LET first == FirstOf(results) IN
            IF first.exc \/ first.val.t # "obj"
            THEN Caught(PyBool(FALSE), <<"SUCCESS! Found results", "Error">>, tr)
            ELSE LET attrs == DictGet(first.val, "attributes", JObj(<<>>)) IN
                 IF attrs.t # "obj"
                 THEN Caught(PyBool(FALSE), <<"SUCCESS! Found results", "Error">>, tr)
                 ELSE Result(PyBool(TRUE), <<"SUCCESS! Found results", "Attributes">>, tr)

\* the identify call placed after the if/else: made whatever the metadata request did
test_layer_capabilities_always_identifies(layer_id, resp, identifyResp) ==
  LET tr == << Call("test_layer_capabilities", [layer |-> layer_id, coords |-> <<>>]),
               HttpGet("test_layer_capabilities", <<GEOADMIN_URL, "/", layer_id>>, <<>>) >>
      hello == <<"Testing layer">>
      identify == test_layer_identify(layer_id, TEST_COORDS, identifyResp)
  IN
  IF ~Returned(resp) THEN Caught(PyNone, hello \o <<"Error testing layer">>, tr)
  ELSE IF ~Ok200(resp) \/ ParsedObj(resp)
       THEN Result(PyNone,
                   hello \o (IF Ok200(resp) THEN <<"Layer info accessible">>
                             ELSE <<"Layer info failed">>) \o identify.out,
                   tr \o identify.trace)
  ELSE Caught(PyNone, hello \o <<"Error testing layer">>, tr)

test_layer_capabilities(layer_id, resp, identifyResp) ==
  LET tr == << Call("test_layer_capabilities", [layer |-> layer_id, coords |-> <<>>]),
               HttpGet("test_layer_capabilities", <<GEOADMIN_URL, "/", layer_id>>, <<>>) >>
      hello == <<"Testing layer">>
  IN
  IF ~Returned(resp) THEN Caught(PyNone, hello \o <<"Error testing layer">>, tr)
  ELSE IF resp.status # 200 THEN Result(PyNone, hello \o <<"Layer info failed">>, tr)
  ELSE IF ~ParsedObj(resp) THEN Caught(PyNone, hello \o <<"Error testing layer">>, tr)
  ELSE LET info == hello \o <<"Layer info accessible", "Description", "Type", "Geometry Type">>
           identify == test_layer_identify(layer_id, TEST_COORDS, identifyResp)
       IN IF identify.raised
          THEN Caught(PyNone, info \o identify.out \o <<"Error testing layer">>,
                      tr \o identify.trace)
          ELSE Result(PyNone, info \o identify.out, tr \o identify.trace)

\* the loop of lines 149-160 over the document's Layer elements from k on
RECURSIVE WmsLayersFrom(_, _, _)
WmsLayersFrom(elems, k, acc) ==
  IF k > Len(elems) THEN acc
  ELSE LET layer == elems[k] IN
       IF layer.hasName /\ layer.name # "" /\ AnyKeywordIn(layer.name)
       THEN WmsLayersFrom(elems, k + 1,
              Append(acc, [name |-> layer.name,
                           title |-> IF layer.hasTitle THEN layer.title ELSE JStr("")]))
       ELSE WmsLayersFrom(elems, k + 1, acc)

investigate_wms_layers(resp) ==
  LET tr == << Call("investigate_wms_layers", NoArg),
               HttpGet("investigate_wms_layers", <<WMS_URL>>,
                       [SERVICE |-> "WMS", REQUEST |-> "GetCapabilities", VERSION |-> "1.3.0"]) >>
      hello == <<"Investigating WMS capabilities...">>
  IN
  IF ~Returned(resp) THEN Caught(PyList(<<>>), hello \o <<"WMS investigation error">>, tr)
  ELSE IF resp.status # 200
       THEN Result(PyList(<<>>), hello \o <<"WMS GetCapabilities failed">>, tr)
  ELSE IF resp.body.parse # "ok"
       THEN Caught(PyList(<<>>), hello \o <<"WMS investigation error">>, tr)
  ELSE LET found == WmsLayersFrom(resp.body.xml, 1, <<>>) IN
       Result(PyList(found),
              hello \o <<"WMS capabilities parsed">> \o [k \in 1..Len(found) |-> "layer"],
              tr)

\* a second attempt after a request that failed
endpoint_requests_retried(endpoint, resp) ==
  IF Ok200(resp)
  THEN << HttpGet("test_alternative_endpoints", <<endpoint>>, <<>>) >>
  ELSE << HttpGet("test_alternative_endpoints", <<endpoint>>, <<>>),
          HttpGet("test_alternative_endpoints", <<endpoint>>, <<>>) >>

\* line 190: the one request an endpoint gets, whatever it answers
endpoint_requests(endpoint, resp) ==
  << HttpGet("test_alternative_endpoints", <<endpoint>>, <<>>) >>

\* one iteration of the loop of test_alternative_endpoints (lines 187-207)
probe_endpoint(endpoint, resp) ==
  LET tr == endpoint_requests(endpoint, resp)
      hello == <<"Testing">>
  IN
  IF ~Returned(resp) THEN Caught(PyNone, hello \o <<"Error">>, tr)
  ELSE IF resp.status # 200 THEN Result(PyNone, hello \o <<"Status">>, tr)
  ELSE IF resp.json_ctype
       THEN IF resp.body.parse = "ok"
            THEN Result(PyNone, hello \o <<"Status", "JSON response">>, tr)
            ELSE Result(PyNone, hello \o <<"Status", "Response length">>, tr)
       ELSE Result(PyNone, hello \o <<"Status", "Content-Type", "Response length">>, tr)

----------------------------------------------------------------------------
(* Inputs: what the network may answer *)

\* a response of an alternative endpoint, with its content-type header
AltResponse(status, json_ctype, body) ==
  [kind |-> "response", status |-> status, json_ctype |-> json_ctype, body |-> body]

\* entries a catalog may list: well-formed ones and two that make the loop raise
SampleEntries ==
  { JObj([layerId |-> JStr("ch.bfe.solarkataster"), name |-> JStr("Solar"),
          type |-> JStr("vector")]),
    JObj([layerId |-> JStr("CH.BFE.Sonnendach")]),
    JObj([layerId |-> JStr("ch.swisstopo.pixelkarte"), name |-> JStr("Solar-Potential"),
          type |-> JStr("raster")]),
    JObj([name |-> JStr("Landeskarte")]),
    JObj([layerId |-> JNum(42), name |-> JStr("Solar")]),
    JStr("ch.bfe.solarkataster") }

Catalogs == UNION { [1..n -> SampleEntries] : n \in 0..MaxLayers }

CatalogResponses ==
  Failures
  \cup { Response(200, "", NotJson),
         Response(200, "", Json(JArr(<<>>))),
         Response(200, "", Json(JObj(<<>>))),
         Response(200, "", Json(JObj([layers |-> JNull]))) }
  \cup { Response(200, "", Json(JObj([layers |-> JArr(c)]))) : c \in Catalogs }

MetadataResponses ==
  Failures
  \cup { Response(200, "", NotJson),
         Response(200, "", Json(JArr(<<>>))),
         Response(200, "", Json(JObj(<<>>))),
         Response(200, "", Json(JObj([description |-> JStr("Solar"),
                                      type |-> JStr("vector")]))) }

SixAttributes ==
  [a1 |-> JNum(1), a2 |-> JNum(2), a3 |-> JNum(3), a4 |-> JNum(4), a5 |-> JNum(5),
   a6 |-> JNum(6)]

IdentifyResponses ==
  Failures
  \cup { Response(200, "", NotJson),
         Response(200, "", Json(JArr(<<>>))),
         Response(200, "", Json(JObj(<<>>))),
         Response(200, "", Json(JObj([results |-> JArr(<<>>)]))),
         Response(200, "", Json(JObj([results |-> JNull]))),
         Response(200, "", Json(JObj([results |-> JNum(7)]))),
         Response(200, "", Json(JObj([results |-> JArr(<<JObj(<<>>)>>)]))),
         Response(200, "", Json(JObj([results |->
            JArr(<<JObj([attributes |-> JObj([klasse |-> JNum(3)])]), JNull>>)]))),
         Response(200, "", Json(JObj([results |->
            JArr(<<JObj([attributes |-> JObj(SixAttributes)])>>)]))),
         Response(200, "", Json(JObj([results |-> JArr(<<JStr("feature")>>)]))),
         Response(200, "", Json(JObj([results |->
            JArr(<<JObj([attributes |-> JNull])>>)]))) }

\* one identify response of each kind the run tells apart: transport error, non-200,
\* unparsable body, no results, a result, a result that is no mapping
RunIdentifyResponses ==
  { TransportError,
    Response(404, "", NotJson),
    Response(200, "", NotJson),
    Response(200, "", Json(JObj([results |-> JArr(<<>>)]))),
    Response(200, "", Json(JObj([results |->
       JArr(<<JObj([attributes |-> JObj([klasse |-> JNum(3)])]), JNull>>)]))),
    Response(200, "", Json(JObj([results |-> JArr(<<JStr("feature")>>)]))) }

\* Layer elements of a capabilities document (flat: no Layer inside a Layer)
SolarWmsLayer ==
  [hasName |-> TRUE, name |-> "ch.bfe.solarkataster", hasTitle |-> TRUE,
   title |-> JStr("Solar")]

UpperWmsLayer ==
  [hasName |-> TRUE, name |-> "CH.BFE.Sonnendach", hasTitle |-> FALSE, title |-> JNull]

OtherWmsLayer ==
  [hasName |-> TRUE, name |-> "ch.swisstopo.pixelkarte", hasTitle |-> TRUE,
   title |-> JNull]

NamelessWmsLayer ==
  [hasName |-> FALSE, name |-> "", hasTitle |-> TRUE, title |-> JStr("Solar")]

WmsDocuments ==
  { <<>>,
    <<OtherWmsLayer>>,
    <<NamelessWmsLayer, SolarWmsLayer>>,
    <<UpperWmsLayer, OtherWmsLayer, SolarWmsLayer>> }

WmsResponses ==
  Failures
  \cup { Response(200, "", [parse |-> "error"]) }
  \cup { Response(200, "", [parse |-> "ok", xml |-> d]) : d \in WmsDocuments }

AltResponses ==
  { TransportError,
    AltResponse(404, FALSE, NotJson),
    AltResponse(200, TRUE, Json(JObj(<<>>))),
    AltResponse(200, TRUE, NotJson),
    AltResponse(200, FALSE, NotJson) }

\* arguments a direct caller passes
SampleLayerIds == { "ch.bfe.solarkataster", "CH.BFE.Sonnendach", "ch.swisstopo.pixelkarte" }

SampleCoords ==
  { TEST_COORDS, <<0, 0>>, <<26000000, 12000000>>, <<-4999, 1000>> }

NoResp == [kind |-> "none"]

Given(op, layer, coords, resp, identifyResp) ==
  [op |-> op, layer |-> layer, coords |-> coords, resp |-> resp,
   identifyResp |-> identifyResp]

NoCall == Given("", "", <<>>, NoResp, NoResp)

----------------------------------------------------------------------------
(* run_full_investigation *)

\* `for layer in layers:`
AllLayers(ls) == ls

\* layers[:3]
FirstLayers(ls) == SubSeq(ls, 1, Min(Len(ls), DESCRIBE_LIMIT))

\* where the run goes when the call just made returned or raised
Continue(r, next) == IF r.raised THEN "crashed" ELSE next

Init ==
  /\ pc = "list"
  /\ i = 1
  /\ layers = <<>>
  /\ ret = PyNone
  /\ out = <<>>
  /\ trace = <<>>
  /\ given = NoCall

\* lines 272-276
ListLayers(resp) ==
  /\ pc = "list"
  /\ LET r == investigate_geoadmin_layers(resp)
         ls == IF r.raised THEN <<>> ELSE r.ret.a
     IN /\ layers' = ls
        /\ ret' = r.ret
        /\ out' = <<"COMPREHENSIVE SONNENDACH API INVESTIGATION">> \o r.out
        /\ trace' = trace \o <<Call("run_full_investigation", NoArg)>> \o r.trace
        /\ given' = Given("investigate_geoadmin_layers", "", <<>>, resp, NoResp)
        /\ pc' = Continue(r, IF FirstLayers(ls) # <<>> THEN "describe" ELSE "wms")
        /\ i' = 1

\* lines 279-280, one iteration
DescribeLayer(resp, identifyResp) ==
  /\ pc = "describe"
  /\ LET layer == FirstLayers(layers)[i]
         r == test_layer_capabilities(layer.id.s, resp, identifyResp)
     IN /\ ret' = r.ret
        /\ out' = r.out
        /\ trace' = trace \o r.trace
        /\ given' = Given("test_layer_capabilities", layer.id.s, <<>>, resp, identifyResp)
        /\ pc' = Continue(r, IF i < Len(FirstLayers(layers)) THEN "describe" ELSE "wms")
        /\ i' = IF i < Len(FirstLayers(layers)) THEN i + 1 ELSE 1
  /\ UNCHANGED layers

\* line 283
EnumerateWms(resp) ==
  /\ pc = "wms"
  /\ LET r == investigate_wms_layers(resp)
     IN /\ ret' = r.ret
        /\ out' = r.out
        /\ trace' = trace \o r.trace
        /\ given' = Given("investigate_wms_layers", "", <<>>, resp, NoResp)
        /\ pc' = Continue(r, "search")
        /\ i' = 1
  /\ UNCHANGED layers

\* the loop of line 229 left at the first candidate that has data
search_stops_at_success(idx, r) ==
  idx < Len(layer_variations) /\ r.ret # PyBool(TRUE)

\* `for layer_name in layer_variations`: whether an iteration follows iteration idx
search_continues(idx, r) == idx < Len(layer_variations)

\* line 286: search_for_correct_layer_name, lines 211-231, one iteration
SearchCandidate(resp) ==
  /\ pc = "search"
  /\ LET layer_name == layer_variations[i]
         r == test_layer_identify_simple(layer_name, TEST_COORDS, resp)
         first == i = 1
     IN /\ ret' = r.ret
        /\ out' = (IF first THEN <<"Testing known solar layer variations...">> ELSE <<>>)
                  \o <<"Testing layer">> \o r.out
        /\ trace' = trace
                    \o (IF first THEN <<Call("search_for_correct_layer_name", NoArg)>>
                        ELSE <<>>)
                    \o r.trace
        /\ given' = Given("test_layer_identify_simple", layer_name, TEST_COORDS, resp, NoResp)
        /\ pc' = Continue(r, IF search_continues(i, r) THEN "search" ELSE "alt")
        /\ i' = IF search_continues(i, r) THEN i + 1 ELSE 1
  /\ UNCHANGED layers

\* line 289: test_alternative_endpoints, lines 177-207, one iteration
ProbeEndpoint(resp) ==
  /\ pc = "alt"
  /\ LET r == probe_endpoint(endpoints[i], resp)
         first == i = 1
     IN /\ ret' = r.ret
        /\ out' = (IF first THEN <<"Testing alternative API endpoints...">> ELSE <<>>)
                  \o r.out
        /\ trace' = trace
                    \o (IF first THEN <<Call("test_alternative_endpoints", NoArg)>>
                        ELSE <<>>)
                    \o r.trace
        /\ given' = Given("test_alternative_endpoints", endpoints[i], <<>>, resp, NoResp)
        /\ pc' = Continue(r, IF i < Len(endpoints) THEN "alt" ELSE "finish")
        /\ i' = IF i < Len(endpoints) THEN i + 1 ELSE 1
  /\ UNCHANGED layers

\* lines 291-293
Finish ==
  /\ pc = "finish"
  /\ pc' = "done"
  /\ out' = <<"INVESTIGATION COMPLETE">>
  /\ UNCHANGED <<i, layers, ret, trace, given>>

Next ==
  \/ pc = "list" /\ \E resp \in CatalogResponses : ListLayers(resp)
  \/ pc = "describe" /\ \E resp \in MetadataResponses :
        \E identifyResp \in (IF ParsedObj(resp) THEN RunIdentifyResponses ELSE {NoResp}) :
           DescribeLayer(resp, identifyResp)
  \/ pc = "wms" /\ \E resp \in WmsResponses : EnumerateWms(resp)
  \/ pc = "search" /\ \E resp \in RunIdentifyResponses : SearchCandidate(resp)
  \/ pc = "alt" /\ \E resp \in AltResponses : ProbeEndpoint(resp)
  \/ Finish

Spec == Init /\ [][Next]_vars

\* the statements after list layers
Later == pc # "list" /\ Next

\* The interpreter runs the next statement: a run that can step does step. The
\* first statement is enabled exactly as long as pc = "list", whatever the catalog
\* request does, so fairness for it is stated on one of its outcomes.
FairSpec == Spec /\ WF_vars(ListLayers(TransportError)) /\ WF_vars(Later)

----------------------------------------------------------------------------
(* A caller invoking the probes directly *)

ProbeInit ==
  /\ pc = "idle"
  /\ i = 1
  /\ layers = <<>>
  /\ ret = PyNone
  /\ out = <<>>
  /\ trace = <<>>
  /\ given = NoCall

\* the caller has the probe's result, or its exception
Returns(r, g) ==
  /\ pc' = IF r.raised THEN "raised" ELSE "returned"
  /\ ret' = r.ret
  /\ out' = r.out
  /\ trace' = r.trace
  /\ given' = g
  /\ UNCHANGED <<i, layers>>

CallList(resp) ==
  /\ pc = "idle"
  /\ Returns(investigate_geoadmin_layers(resp),
             Given("investigate_geoadmin_layers", "", <<>>, resp, NoResp))

CallCapabilities(layer_id, resp, identifyResp) ==
  /\ pc = "idle"
  /\ Returns(test_layer_capabilities(layer_id, resp, identifyResp),
             Given("test_layer_capabilities", layer_id, <<>>, resp, identifyResp))

CallIdentify(layer_id, coords, resp) ==
  /\ pc = "idle"
  /\ Returns(test_layer_identify(layer_id, coords, resp),
             Given("test_layer_identify", layer_id, coords, resp, NoResp))

CallIdentifySimple(layer_id, coords, resp) ==
  /\ pc = "idle"
  /\ Returns(test_layer_identify_simple(layer_id, coords, resp),
             Given("test_layer_identify_simple", layer_id, coords, resp, NoResp))

CallWms(resp) ==
  /\ pc = "idle"
  /\ Returns(investigate_wms_layers(resp),
             Given("investigate_wms_layers", "", <<>>, resp, NoResp))

\* the caller goes on to its next call
NextCall ==
  /\ pc = "returned"
  /\ pc' = "idle"
  /\ ret' = PyNone
  /\ out' = <<>>
  /\ trace' = <<>>
  /\ given' = NoCall
  /\ UNCHANGED <<i, layers>>

ProbeNext ==
  \/ pc = "idle" /\ \E resp \in CatalogResponses : CallList(resp)
  \/ \E layer_id \in SampleLayerIds, resp \in MetadataResponses :
        \E identifyResp \in (IF ParsedObj(resp) THEN IdentifyResponses ELSE {NoResp}) :
           CallCapabilities(layer_id, resp, identifyResp)
  \/ \E layer_id \in SampleLayerIds, coords \in SampleCoords, resp \in IdentifyResponses :
        CallIdentify(layer_id, coords, resp)
  \/ \E layer_id \in SampleLayerIds, coords \in SampleCoords, resp \in IdentifyResponses :
        CallIdentifySimple(layer_id, coords, resp)
  \/ \E resp \in WmsResponses : CallWms(resp)
  \/ NextCall

ProbeSpec == ProbeInit /\ [][ProbeNext]_vars

----------------------------------------------------------------------------
(* Properties of the probes, checked under ProbeSpec *)

\* the latest call was of probe op and the caller has its result or its exception
Called(op) == pc \in {"returned", "raised"} /\ given.op = op

\* a non-200 status or a transport exception
Failing(resp) ==
  \/ resp.kind = "exception"
  \/ (resp.kind = "response" /\ resp.status # 200)

\* status 200 and a body that parsed as a mapping
Succeeded(resp) ==
  /\ resp.kind = "response"
  /\ resp.status = 200
  /\ resp.body.parse = "ok"
  /\ resp.body.json.t = "obj"

FiveProbes ==
  { "investigate_geoadmin_layers", "test_layer_capabilities", "test_layer_identify",
    "test_layer_identify_simple", "investigate_wms_layers" }

\* C1 as stated: every one of the five probes, given a non-200 status or a transport
\* exception, does not raise and returns an empty collection or false.
C1_FailureReturnsEmptyOrFalse ==
  \A op \in FiveProbes :
     (Called(op) /\ Failing(given.resp)) =>
        (pc = "returned" /\ ret \in {PyList(<<>>), PyBool(FALSE)})

\* C1 amended: given a non-200 status or a transport exception no probe raises;
\* investigate_geoadmin_layers and investigate_wms_layers return an empty list,
\* test_layer_identify_simple returns False, and test_layer_capabilities and
\* test_layer_identify, which have no return statement, return None.
C1_FailureDegrades ==
  \A op \in FiveProbes :
     (Called(op) /\ Failing(given.resp)) =>
        /\ pc = "returned"
        /\ ret = CASE op \in {"investigate_geoadmin_layers", "investigate_wms_layers"}
                        -> PyList(<<>>)
                   [] op = "test_layer_identify_simple" -> PyBool(FALSE)
                   [] OTHER -> PyNone

C1_Witness ==
  /\ Called("investigate_wms_layers")
  /\ given.resp = TransportError
  /\ pc = "returned"
  /\ ret = PyList(<<>>)

\* the catalog of a 200 response whose body is a mapping with a list of layers
CatalogOf(resp) == resp.body.json.f.layers.a

\* every entry is a mapping whose layerId, when present, is a string
WellFormedCatalog(resp) ==
  /\ Succeeded(resp)
  /\ "layers" \in DOMAIN resp.body.json.f
  /\ resp.body.json.f.layers.t = "arr"
  /\ \A k \in 1..Len(CatalogOf(resp)) :
        /\ CatalogOf(resp)[k].t = "obj"
        /\ DictGet(CatalogOf(resp)[k], "layerId", JStr("")).t = "str"

\* the entry as the probe reports it
Reported(entry) ==
  [id |-> DictGet(entry, "layerId", JStr("")),
   name |-> DictGet(entry, "name", JStr("")),
   type |-> DictGet(entry, "type", JStr("unknown"))]

IdHasKeyword(entry) == AnyKeywordIn(DictGet(entry, "layerId", JStr("")).s)

NameHasKeyword(entry) ==
  LET n == DictGet(entry, "name", JStr("")) IN n.t = "str" /\ AnyKeywordIn(n.s)

IdOrNameHasKeyword(entry) == IdHasKeyword(entry) \/ NameHasKeyword(entry)

ReportedAll(entries) == [k \in 1..Len(entries) |-> Reported(entries[k])]

\* C4 as stated: on a 200 response investigate_geoadmin_layers returns, in catalog
\* order, exactly the entries whose identifier or name contains a keyword, whatever
\* the case of the letters; an entry named "Solar-Potential" is among them.
C4_FiltersByIdOrName ==
  (Called("investigate_geoadmin_layers") /\ WellFormedCatalog(given.resp)) =>
     ret = PyList(ReportedAll(SelectSeq(CatalogOf(given.resp), IdOrNameHasKeyword)))

\* C4 amended: on a 200 response whose body is a mapping with a well-formed layer
\* list, investigate_geoadmin_layers returns, in catalog order, the id, name and type
\* of exactly the entries whose identifier (layerId) contains a keyword, whatever the
\* case of the letters; the name is not looked at, so an entry named
\* "Solar-Potential" is returned only when its identifier matches. On any other 200
\* body the probe returns an empty list.
C4_FiltersByIdentifier ==
  Called("investigate_geoadmin_layers") =>
     /\ pc = "returned"
     /\ WellFormedCatalog(given.resp) =>
           ret = PyList(ReportedAll(SelectSeq(CatalogOf(given.resp), IdHasKeyword)))
     /\ (Ok200(given.resp) /\ ~WellFormedCatalog(given.resp)) => ret = PyList(<<>>)

C4_Witness ==
  /\ Called("investigate_geoadmin_layers")
  /\ WellFormedCatalog(given.resp)
  /\ Len(CatalogOf(given.resp)) = 3
  /\ NameHasKeyword(CatalogOf(given.resp)[1]) /\ ~IdHasKeyword(CatalogOf(given.resp)[1])
  /\ DictGet(CatalogOf(given.resp)[2], "layerId", JNull) = JStr("CH.BFE.Sonnendach")
  /\ DictGet(CatalogOf(given.resp)[3], "layerId", JNull) = JStr("ch.bfe.solarkataster")
  /\ ret = PyList(<< Reported(CatalogOf(given.resp)[2]), Reported(CatalogOf(given.resp)[3]) >>)

EmptyResults == Response(200, "", Json(JObj([results |-> JArr(<<>>)])))

IsIn(line, lines) == \E k \in 1..Len(lines) : lines[k] = line

\* C6 as stated: given a 200 identify response with body {"results": []},
\* test_layer_identify and test_layer_identify_simple report that no data was found
\* and return false, without raising.
C6_EmptyResultsReturnFalse ==
  \A op \in {"test_layer_identify", "test_layer_identify_simple"} :
     (Called(op) /\ given.resp = EmptyResults) =>
        /\ pc = "returned"
        /\ \/ IsIn("No data found at test coordinates", out)
           \/ IsIn("Layer exists but no data at coordinates", out)
        /\ ret = PyBool(FALSE)

\* C6 amended: given a 200 identify response with body {"results": []}, neither
\* identify probe raises and each reports that no data was found;
\* test_layer_identify_simple returns False, test_layer_identify returns None (it
\* has no return statement).
C6_EmptyResultsReported ==
  /\ (Called("test_layer_identify") /\ given.resp = EmptyResults) =>
        /\ pc = "returned"
        /\ out = <<"Testing identify at coordinates", "Identify successful",
                   "No data found at test coordinates">>
        /\ ret = PyNone
  /\ (Called("test_layer_identify_simple") /\ given.resp = EmptyResults) =>
        /\ pc = "returned"
        /\ out = <<"Layer exists but no data at coordinates">>
        /\ ret = PyBool(FALSE)

C6_Witness ==
  /\ Called("test_layer_identify")
  /\ given.resp = EmptyResults
  /\ pc = "returned"
  /\ IsIn("No data found at test coordinates", out)

\* the body's results: a non-empty list
ResultsFound(resp) ==
  /\ Succeeded(resp)
  /\ "results" \in DOMAIN resp.body.json.f
  /\ resp.body.json.f.results.t = "arr"
  /\ resp.body.json.f.results.a # <<>>

\* printing the first result's attribute keys raises nothing
FirstResultPrints(resp) ==
  LET first == resp.body.json.f.results.a[1] IN
  /\ first.t = "obj"
  /\ ("attributes" \in DOMAIN first.f => first.f.attributes.t = "obj")

\* C7: test_layer_identify_simple returns True exactly when the request returned
\* status 200, the body parsed and its results list is non-empty (and printing the
\* first result's attributes raised nothing); with empty results, a non-200 status,
\* a parse failure, a transport exception or an exception while printing it
\* returns False.
C7_TrueIffResultFound ==
  Called("test_layer_identify_simple") =>
     /\ pc = "returned"
     /\ ret \in {PyBool(TRUE), PyBool(FALSE)}
     /\ ret = PyBool(TRUE) <=>
           (ResultsFound(given.resp) /\ FirstResultPrints(given.resp))

C7_Witness ==
  /\ Called("test_layer_identify_simple")
  /\ ResultsFound(given.resp)
  /\ FirstResultPrints(given.resp)
  /\ ret = PyBool(TRUE)

\* the HTTP requests of the trace
IsGet(e) == e.ev = "get"

Gets == SelectSeq(trace, IsGet)

\* C9: the mapExtent of an identify probe called with (x, y) is
\* (x-h, y-h, x+h, y+h), h = 500 for test_layer_identify and 100 for
\* test_layer_identify_simple (5000 and 1000 tenths): centered on (x, y) and as wide
\* as it is high; the geometry parameter is (x, y).
C9_ExtentCentered ==
  \A op \in {"test_layer_identify", "test_layer_identify_simple"} :
     Called(op) =>
        LET x == given.coords[1]
            y == given.coords[2]
            h == IF op = "test_layer_identify" THEN 5000 ELSE 1000
            params == Gets[1].params
            box == params.mapExtent.fields
        IN /\ Len(Gets) = 1
           /\ box = <<x - h, y - h, x + h, y + h>>
           /\ box[1] + box[3] = 2 * x
           /\ box[2] + box[4] = 2 * y
           /\ box[3] - box[1] = box[4] - box[2]
           /\ params.geometry = Csv(<<x, y>>)

C9_Witness ==
  /\ Called("test_layer_identify")
  /\ given.coords = <<-4999, 1000>>
  /\ Gets[1].params.mapExtent = Csv(<<-9999, -4000, 1, 6000>>)

IsIdentifyEvent(e) ==
  \/ (e.ev = "get" /\ e.probe = "test_layer_identify")
  \/ (e.ev = "call" /\ e.op = "test_layer_identify")

\* C10: test_layer_capabilities runs the point-identify probe once, for its own
\* layer identifier and the fixed test coordinate, when its metadata request
\* returned status 200 with a body that parsed as a mapping, and not at all
\* otherwise; whatever the identify request does, test_layer_capabilities does
\* not raise.
C10_IdentifyIffMetadataOk ==
  Called("test_layer_capabilities") =>
     /\ pc = "returned"
     /\ SelectSeq(trace, IsIdentifyEvent) =
           IF Succeeded(given.resp)
           THEN << Call("test_layer_identify",
                        [layer |-> given.layer, coords |-> <<6050754, 1972253>>]),
                   HttpGet("test_layer_identify", <<IDENTIFY_URL>>,
                           IdentifyParams(given.layer, <<6050754, 1972253>>, 500)) >>
           ELSE <<>>

C10_Witness ==
  /\ Called("test_layer_capabilities")
  /\ Succeeded(given.resp)
  /\ given.identifyResp = TransportError
  /\ pc = "returned"
  /\ Len(Gets) = 2

----------------------------------------------------------------------------
(* Properties of run_full_investigation, checked under Spec and FairSpec *)

\* the stage of run_full_investigation an event of the trace belongs to
StageOf(e) ==
  LET who == IF e.ev = "call" THEN e.op ELSE e.probe IN
  CASE who = "run_full_investigation" -> 0
    [] who = "investigate_geoadmin_layers" -> 1
    [] who \in {"test_layer_capabilities", "test_layer_identify"} -> 2
    [] who = "investigate_wms_layers" -> 3
    [] who \in {"search_for_correct_layer_name", "test_layer_identify_simple"} -> 4
    [] who = "test_alternative_endpoints" -> 5

\* the calls run_full_investigation itself makes
IsStageCall(e) ==
  /\ e.ev = "call"
  /\ e.op \in { "investigate_geoadmin_layers", "test_layer_capabilities",
                "investigate_wms_layers", "search_for_correct_layer_name",
                "test_alternative_endpoints" }

StageCalls == SelectSeq(trace, IsStageCall)

\* the calls a run makes when list layers returned ls
ExpectedStageCalls(ls) ==
  << Call("investigate_geoadmin_layers", NoArg) >>
  \o [k \in 1..(IF Len(ls) < 3 THEN Len(ls) ELSE 3) |->
        Call("test_layer_capabilities", [layer |-> ls[k].id.s, coords |-> <<>>])]
  \o << Call("investigate_wms_layers", NoArg),
        Call("search_for_correct_layer_name", NoArg),
        Call("test_alternative_endpoints", NoArg) >>

\* C2: whatever each request does, run_full_investigation lets no exception out and
\* reaches the final INVESTIGATION COMPLETE banner.
C2_RunsToCompletion ==
  /\ [](pc # "crashed")
  /\ <>(pc = "done" /\ out = <<"INVESTIGATION COMPLETE">>)

C2_Witness ==
  /\ pc = "done"
  /\ out = <<"INVESTIGATION COMPLETE">>
  /\ layers = <<>>
  /\ given.resp = TransportError

\* C3: the stages start in the order list layers, describe layer for the first
\* three (at most) filtered layers in returned order, WMS, name search, alternative
\* endpoints; every event of a stage precedes every event of the next; a finished
\* run has started every stage; an empty layer list means no describe-layer call.
C3_StageOrder ==
  /\ Len(StageCalls) <= Len(ExpectedStageCalls(layers))
  /\ StageCalls = SubSeq(ExpectedStageCalls(layers), 1, Len(StageCalls))
  /\ \A j, k \in 1..Len(trace) : j < k => StageOf(trace[j]) <= StageOf(trace[k])
  /\ pc \in {"finish", "done"} => StageCalls = ExpectedStageCalls(layers)
  /\ (pc # "list" /\ layers = <<>>) =>
        \A k \in 1..Len(trace) : StageOf(trace[k]) # 2
  /\ pc # "crashed"

C3_Witness ==
  /\ pc = "done"
  /\ Len(layers) = 4
  /\ Len(StageCalls) = 7

IsSimpleCall(e) == e.ev = "call" /\ e.op = "test_layer_identify_simple"

SimpleCalls == SelectSeq(trace, IsSimpleCall)

\* C5: the name search calls test_layer_identify_simple once per candidate of the
\* fixed list, in list order, each with the fixed test coordinate, and goes on to
\* the next candidate whatever the call returned.
C5_EveryCandidateOnce ==
  /\ Len(SimpleCalls) <= 10
  /\ \A k \in 1..Len(SimpleCalls) :
        SimpleCalls[k] = Call("test_layer_identify_simple",
                              [layer |-> layer_variations[k],
                               coords |-> <<6050754, 1972253>>])
  /\ pc = "search" => Len(SimpleCalls) = i - 1
  /\ pc \in {"alt", "finish", "done"} => Len(SimpleCalls) = 10
  /\ pc \in {"list", "describe", "wms"} => Len(SimpleCalls) = 0

C5_Witness ==
  /\ pc = "search"
  /\ i = 6
  /\ ret = PyBool(TRUE)
  /\ Len(SimpleCalls) = 5

IsProbeCall(e) ==
  /\ e.ev = "call"
  /\ e.op \in { "investigate_geoadmin_layers", "test_layer_capabilities",
                "test_layer_identify", "investigate_wms_layers",
                "test_layer_identify_simple" }

GetsOf(probe) == SelectSeq(trace, LAMBDA e : e.ev = "get" /\ e.probe = probe)

\* C8: nothing is retried. Every call of a probe sends one request; the catalog and
\* the WMS document are requested once, each described layer gets at most one
\* metadata and one identify request, each candidate name one identify request,
\* each alternative endpoint one request, 22 requests at most.
C8_NoRetry ==
  /\ Len(Gets) <= 22
  /\ \A k \in 1..Len(trace) :
        /\ IsProbeCall(trace[k]) =>
              /\ k < Len(trace)
              /\ trace[k + 1].ev = "get"
              /\ trace[k + 1].probe = trace[k].op
        /\ (trace[k].ev = "get" /\ trace[k].probe # "test_alternative_endpoints") =>
              /\ k > 1
              /\ trace[k - 1].ev = "call"
              /\ trace[k - 1].op = trace[k].probe
  /\ Len(GetsOf("investigate_geoadmin_layers")) <= 1
  /\ Len(GetsOf("investigate_wms_layers")) <= 1
  /\ Len(GetsOf("test_layer_capabilities")) <= (IF Len(layers) < 3 THEN Len(layers) ELSE 3)
  /\ Len(GetsOf("test_layer_identify")) <= Len(GetsOf("test_layer_capabilities"))
  /\ Len(GetsOf("test_layer_identify_simple")) <= 10
  /\ \A k \in 1..Len(GetsOf("test_layer_identify_simple")) :
        GetsOf("test_layer_identify_simple")[k].params.layers = <<"all:", layer_variations[k]>>
  /\ Len(GetsOf("test_alternative_endpoints")) <= 4
  /\ \A k \in 1..Len(GetsOf("test_alternative_endpoints")) :
        GetsOf("test_alternative_endpoints")[k].url = <<endpoints[k]>>

C8_Witness ==
  /\ pc = "done"
  /\ Len(Gets) = 22
  /\ given.resp = TransportError

====
